---- MODULE Spec2Model ----
(***************************************************************************)
(* Icon lookup of scripts/generate-icon.py: theme construction from        *)
(* index.theme files, the per-theme lookup (exact match, then closest      *)
(* size), the search through inherited themes and the hicolor fallback.    *)
(*                                                                         *)
(* Values.  A Python value that may be None is a record with a tag:        *)
(*   None              [tag |-> "None", parts |-> <<>>]                    *)
(*   a Path            [tag |-> "Path", parts |-> <<theme_name>>]          *)
(*   a str (file name) [tag |-> "str", parts |-> <<theme, relpath, icon,   *)
(*                                                 extension>>]            *)
(*   the str ""        [tag |-> "str", parts |-> <<>>]                     *)
(* An int attribute that may be None is a sequence: <<>> or <<n>>.         *)
(* The two icon roots of get_theme_directory are one root here: the rest   *)
(* of the program only sees the first directory that exists.               *)
(*                                                                         *)
(* Index files.  fs[name] is the installed theme directory called name:    *)
(* is_dir, the Inherits value split on commas (<<>> when the key is        *)
(* absent), and Sections, one record per entry of the Directories value,   *)
(* in order, holding the text of the keys of that entry's section ("" for  *)
(* an absent key) and the extensions for which <icon>.<extension> exists   *)
(* in that subdirectory.  The relative path of an entry is its position.   *)
(* Every index file has a Directories key, Inherits precedes Directories,  *)
(* and a section declares the size keys its Type uses (Size for Fixed,     *)
(* MinSize and MaxSize for Scalable).                                      *)
(*                                                                         *)
(* State.  fs and request (the size and scale the process asks for) are    *)
(* drawn when the process starts and never change; THEME_CACHE is the      *)
(* module-level dictionary; parse_count[name] counts the Theme.__init__    *)
(* runs that opened the index file of name; calls counts the find_icon     *)
(* calls made; last is the last call with its outcome: the exception that  *)
(* left it ("" for none) and the value returned.                           *)
(***************************************************************************)
EXTENDS Integers, Sequences, FiniteSets, TLC

\* Bounds of the model.
MaxDirs == 2
MaxParents == 2
MaxCalls == 2
RecursionLimit == 4

Names == {"A", "B", "hicolor"}
Icon == "utilities-terminal"
RequestSizes == {48, 64, 96}
RequestScales == {1, 2}

VARIABLES fs, request, THEME_CACHE, parse_count, calls, last

vars == <<fs, request, THEME_CACHE, parse_count, calls, last>>

None == [tag |-> "None", parts |-> <<>>]

EmptyStr == [tag |-> "str", parts |-> <<>>]

Extensions == <<"png", "svg", "xpm">>

\* sys.maxsize, here the largest integer of the checker: every distance of a
\* Fixed or Scalable subdirectory is below it, as in the program.
sys_maxsize == 2147483647

SubdirType == [Fixed |-> "fixed", Scalable |-> "scalable"]

\* int(v) on the texts the model's index files use; any other text raises
\* ValueError.
Numerals == ("1" :> 1) @@ ("2" :> 2) @@ ("48" :> 48) @@ ("96" :> 96)

int_raises(v) == v \notin DOMAIN Numerals

int(v) == Numerals[v]

abs(n) == IF n < 0 THEN -n ELSE n

----------------------------------------------------------------------------
\* Theme.get_theme_directory: the first existing <root>/<theme_name>, else
\* the implicit None.
get_theme_directory(theme_name) ==
    IF theme_name \in DOMAIN fs /\ fs[theme_name].is_dir
    THEN [tag |-> "Path", parts |-> <<theme_name>>]
    ELSE None

\* ThemeSubdirectory.__init__: the keys of section [relpath] of the owning
\* theme's index file; Scale defaults to 1.  theme is the owning Theme, of
\* which only the path is set when its subdirectories are built.
ThemeSubdirectory_init(relpath, theme) ==
    LET sec == fs[theme.path.parts[1]].Sections[relpath]
        opt(v) == IF v = "" THEN <<>> ELSE <<int(v)>>
    IN  IF \E v \in {sec.Size, sec.MinSize, sec.MaxSize, sec.Scale} :
              v # "" /\ int_raises(v)
        THEN [exc |-> "ValueError", subdir |-> None]
        ELSE [exc |-> "",
              subdir |-> [relpath |-> relpath,
                          theme |-> theme,
                          type |-> IF sec.Type = "Fixed" THEN SubdirType.Fixed
                                   ELSE IF sec.Type = "Scalable" THEN SubdirType.Scalable
                                   ELSE "None",
                          size |-> opt(sec.Size),
                          min_size |-> opt(sec.MinSize),
                          max_size |-> opt(sec.MaxSize),
                          scale |-> IF sec.Scale = "" THEN 1 ELSE int(sec.Scale)]]

\* [ThemeSubdirectory(Path(relpath), self) for relpath in vs]: the first
\* exception ends the comprehension.
RECURSIVE Subdirectories(_, _, _)
Subdirectories(theme, relpath, n) ==
    IF relpath > n THEN [exc |-> "", directories |-> <<>>]
    ELSE LET d == ThemeSubdirectory_init(relpath, theme)
         IN  IF d.exc # "" THEN [exc |-> d.exc, directories |-> <<>>]
             ELSE LET rest == Subdirectories(theme, relpath + 1, n)
                  IN  [exc |-> rest.exc,
                       directories |-> IF rest.exc # "" THEN <<>>
                                       ELSE <<d.subdir>> \o rest.directories]

ThemeSubdirectory_full_path(subdir) == <<subdir.theme.path.parts[1], subdir.relpath>>

\* os.path.exists(filename)
os_path_exists(filename) ==
    LET p == filename.parts
    IN  /\ Len(p) = 4
        /\ p[1] \in DOMAIN fs
        /\ fs[p[1]].is_dir
        /\ p[2] \in 1..Len(fs[p[1]].Sections)
        /\ p[3] = Icon
        /\ p[4] \in fs[p[1]].Sections[p[2]].files

----------------------------------------------------------------------------
\* directory_matches_size without its comparison of the scales.
directory_matches_size_any_scale(subdir, icon_size, icon_scale) ==
    IF subdir.type = SubdirType.Fixed THEN subdir.size[1] = icon_size
    ELSE IF subdir.type = SubdirType.Scalable
         THEN subdir.min_size[1] <= icon_size /\ icon_size <= subdir.max_size[1]
         ELSE FALSE

\* directory_matches_size; the implicit None of an untyped subdirectory is
\* falsy.
directory_matches_size(subdir, icon_size, icon_scale) ==
    IF subdir.scale # icon_scale THEN FALSE
    ELSE IF subdir.type = SubdirType.Fixed THEN subdir.size[1] = icon_size
    ELSE IF subdir.type = SubdirType.Scalable
         THEN subdir.min_size[1] <= icon_size /\ icon_size <= subdir.max_size[1]
         ELSE FALSE

\* directory_size_distance with distance 0, not sys.maxsize, for a
\* subdirectory that is neither Fixed nor Scalable.
directory_size_distance_untyped_zero(subdir, icon_size, icon_scale) ==
    LET icon_dimension == icon_size * icon_scale
    IN  IF subdir.type = SubdirType.Fixed
        THEN abs(subdir.size[1] * subdir.scale - icon_dimension)
        ELSE IF subdir.type = SubdirType.Scalable
        THEN IF icon_dimension < subdir.min_size[1] * subdir.scale
             THEN subdir.min_size[1] * subdir.scale - icon_dimension
             ELSE IF icon_dimension > subdir.max_size[1] * subdir.scale
             THEN icon_dimension - subdir.max_size[1] * subdir.scale
             ELSE 0
        ELSE 0

\* directory_size_distance
directory_size_distance(subdir, icon_size, icon_scale) ==
    LET icon_dimension == icon_size * icon_scale
    IN  IF subdir.type = SubdirType.Fixed
        THEN abs(subdir.size[1] * subdir.scale - icon_dimension)
        ELSE IF subdir.type = SubdirType.Scalable
        THEN IF icon_dimension < subdir.min_size[1] * subdir.scale
             THEN subdir.min_size[1] * subdir.scale - icon_dimension
             ELSE IF icon_dimension > subdir.max_size[1] * subdir.scale
             THEN icon_dimension - subdir.max_size[1] * subdir.scale
             ELSE 0
        ELSE sys_maxsize

\* f"{subdir.full_path()}/{iconname}.{extension}"
Filename(subdir, iconname, extension) ==
    [tag |-> "str",
     parts |-> ThemeSubdirectory_full_path(subdir) \o <<iconname, extension>>]

\* The k-th iteration of "for subdir in theme.directories: for extension in
\* [png, svg, xpm]".
PairSubdir(theme, k) == theme.directories[((k - 1) \div Len(Extensions)) + 1]

PairExtension(k) == Extensions[((k - 1) % Len(Extensions)) + 1]

\* lookup_icon, first loop: the first exact match whose file exists.
RECURSIVE ExactLoop(_, _, _, _, _)
ExactLoop(iconname, size, scale, theme, k) ==
    IF k > Len(theme.directories) * Len(Extensions) THEN None
    ELSE LET subdir == PairSubdir(theme, k)
             filename == Filename(subdir, iconname, PairExtension(k))
         IN  IF directory_matches_size(subdir, size, scale) /\ os_path_exists(filename)
             THEN filename
             ELSE ExactLoop(iconname, size, scale, theme, k + 1)

\* The iteration below with "<=" for "<": the last of the closest files wins.
ClosestStep_not_greater(acc, subdir, filename, size, scale) ==
    IF os_path_exists(filename)
       /\ directory_size_distance(subdir, size, scale) <= acc.minimal_size
    THEN [closest_filename |-> filename,
          minimal_size |-> directory_size_distance(subdir, size, scale)]
    ELSE acc

\* lookup_icon, one iteration of the second loop on the locals
\* (closest_filename, minimal_size).
ClosestStep(acc, subdir, filename, size, scale) ==
    IF os_path_exists(filename)
       /\ directory_size_distance(subdir, size, scale) < acc.minimal_size
    THEN [closest_filename |-> filename,
          minimal_size |-> directory_size_distance(subdir, size, scale)]
    ELSE acc

RECURSIVE ClosestLoop(_, _, _, _, _, _)
ClosestLoop(acc, iconname, size, scale, theme, k) ==
    IF k > Len(theme.directories) * Len(Extensions) THEN acc
    ELSE LET subdir == PairSubdir(theme, k)
             filename == Filename(subdir, iconname, PairExtension(k))
         IN  ClosestLoop(ClosestStep(acc, subdir, filename, size, scale),
                         iconname, size, scale, theme, k + 1)

lookup_icon(iconname, size, scale, theme) ==
    LET exact == ExactLoop(iconname, size, scale, theme, 1)
    IN  IF exact # None THEN exact
        ELSE LET acc == ClosestLoop([closest_filename |-> EmptyStr,
                                     minimal_size |-> sys_maxsize],
                                    iconname, size, scale, theme, 1)
             IN  IF acc.closest_filename.tag # "None" THEN acc.closest_filename
                 ELSE None

----------------------------------------------------------------------------
\* str(theme_directory), the key of THEME_CACHE.
str(theme_directory) ==
    IF theme_directory.tag = "None" THEN "None" ELSE theme_directory.parts[1]

NoTheme == [path |-> None, parents |-> <<>>, directories |-> <<>>]

\* Theme.__init__ and Theme.check_cache_before_creation.  The result is the
\* exception raised ("" for none), the Theme built and the directories whose
\* index file a Theme.__init__ opened, in order.  depth counts the nested
\* Theme.__init__ calls; beyond RecursionLimit the interpreter raises
\* RecursionError.  parents is <<>> where the attribute stays None.
RECURSIVE Theme_init(_, _)
RECURSIVE ParentThemes(_, _, _)

check_cache_before_creation(theme_directory, depth) ==
    IF str(theme_directory) \in DOMAIN THEME_CACHE
    THEN [exc |-> "", theme |-> THEME_CACHE[str(theme_directory)], parsed |-> <<>>]
    ELSE Theme_init(theme_directory, depth)

from_theme_name(theme_name, depth) ==
    check_cache_before_creation(get_theme_directory(theme_name), depth)

\* [Theme.from_theme_name(theme_name) for theme_name in vs]
ParentThemes(vs, i, depth) ==
    IF i > Len(vs) THEN [exc |-> "", themes |-> <<>>, parsed |-> <<>>]
    ELSE LET t == from_theme_name(vs[i], depth)
         IN  IF t.exc # "" THEN [exc |-> t.exc, themes |-> <<>>, parsed |-> t.parsed]
             ELSE LET rest == ParentThemes(vs, i + 1, depth)
                  IN  [exc |-> rest.exc,
                       themes |-> IF rest.exc # "" THEN <<>>
                                  ELSE <<t.theme>> \o rest.themes,
                       parsed |-> t.parsed \o rest.parsed]

Theme_init(theme_directory, depth) ==
    IF depth > RecursionLimit
    THEN [exc |-> "RecursionError", theme |-> NoTheme, parsed |-> <<>>]
    ELSE IF theme_directory.tag = "None"
    THEN [exc |-> "TypeError", theme |-> NoTheme, parsed |-> <<>>]
    ELSE LET name == theme_directory.parts[1]
             self == [path |-> theme_directory]
             ps == ParentThemes(fs[name].Inherits, 1, depth + 1)
             ds == Subdirectories(self, 1, Len(fs[name].Sections))
         IN  IF ps.exc # ""
             THEN [exc |-> ps.exc, theme |-> NoTheme, parsed |-> <<name>> \o ps.parsed]
             ELSE IF ds.exc # ""
             THEN [exc |-> ds.exc, theme |-> NoTheme, parsed |-> <<name>> \o ps.parsed]
             ELSE [exc |-> "",
                   theme |-> [path |-> theme_directory,
                              parents |-> ps.themes,
                              directories |-> ds.directories],
                   parsed |-> <<name>> \o ps.parsed]

Theme_has_parents(self) == Len(self.parents) # 0

RECURSIVE find_icon_helper(_, _, _, _)
RECURSIVE ParentsLoop(_, _, _, _, _)

\* "for parent in theme.parents" of find_icon_helper.
ParentsLoop(icon, size, scale, parents, i) ==
    IF i > Len(parents) THEN None
    ELSE LET filename == find_icon_helper(icon, size, scale, parents[i])
         IN  IF filename # None THEN filename
             ELSE ParentsLoop(icon, size, scale, parents, i + 1)

find_icon_helper(icon, size, scale, theme) ==
    LET filename == lookup_icon(icon, size, scale, theme)
    IN  IF filename # None THEN filename
        ELSE IF Theme_has_parents(theme)
        THEN ParentsLoop(icon, size, scale, theme.parents, 1)
        ELSE None

\* find_icon: an exception of either construction propagates to the caller.
find_icon(theme_name, icon, size, scale) ==
    LET t1 == check_cache_before_creation(get_theme_directory(theme_name), 1)
    IN  IF t1.exc # "" THEN [exc |-> t1.exc, value |-> None, parsed |-> t1.parsed]
        ELSE LET f1 == find_icon_helper(icon, size, scale, t1.theme)
             IN  IF f1 # None THEN [exc |-> "", value |-> f1, parsed |-> t1.parsed]
                 ELSE LET t2 == check_cache_before_creation(
                                    get_theme_directory("hicolor"), 1)
                      IN  IF t2.exc # ""
                          THEN [exc |-> t2.exc, value |-> None,
                                parsed |-> t1.parsed \o t2.parsed]
                          ELSE [exc |-> "",
                                value |-> find_icon_helper(icon, size, scale, t2.theme),
                                parsed |-> t1.parsed \o t2.parsed]

----------------------------------------------------------------------------
\* The themes installed when the process starts.
NotInstalled == [is_dir |-> FALSE, Inherits |-> <<>>, Sections |-> <<>>]

FileSets == {{}, {"png"}, {"svg", "xpm"}}

Section(type, size, min_size, max_size, scale, files) ==
    [Type |-> type, Size |-> size, MinSize |-> min_size, MaxSize |-> max_size,
     Scale |-> scale, files |-> files]

SizeTexts == {"48", "96"}

ScaleTexts == {"", "2"}

ScalableRanges == {<<"48", "96">>, <<"96", "96">>}

LookupSections ==
    {Section("Fixed", s, "", "", c, f) : s \in SizeTexts, c \in ScaleTexts, f \in FileSets}
    \cup {Section("Scalable", p[2], p[1], p[2], c, f) :
              p \in ScalableRanges, c \in ScaleTexts, f \in FileSets}
    \cup {Section("Threshold", "48", "", "", "", f) : f \in FileSets}

SectionLists(S) == UNION {[1..n -> S] : n \in 1..MaxDirs}

TreeSections ==
    {<<Section("Fixed", "48", "", "", "", {"png"})>>,
     <<Section("Fixed", "48", "", "", "", {})>>,
     <<Section("Fixed", "4x8", "", "", "", {"png"})>>}

InheritsLists ==
    {vs \in UNION {[1..n -> Names] : n \in 0..MaxParents} :
        \A i, j \in 1..Len(vs) : i # j => vs[i] # vs[j]}

TreeThemes ==
    {NotInstalled}
    \cup {[is_dir |-> TRUE, Inherits |-> vs, Sections |-> ss] :
              vs \in InheritsLists, ss \in TreeSections}

NoCall ==
    [op |-> "none", theme_name |-> "", relpath |-> 0,
     exc |-> "", value |-> None, distance |-> 0, matches |-> FALSE]

InitProcess ==
    /\ request \in [size : RequestSizes, scale : RequestScales]
    /\ THEME_CACHE = <<>>
    /\ parse_count = [n \in Names |-> 0]
    /\ calls = 0
    /\ last = NoCall

Init ==
    /\ fs \in {f \in [Names -> TreeThemes] :
                  f["hicolor"].is_dir => Len(f["hicolor"].Inherits) = 0}
    /\ InitProcess

InitLookup ==
    /\ fs \in {[n \in Names |-> IF n = "A"
                                THEN [is_dir |-> TRUE, Inherits |-> <<>>, Sections |-> ss]
                                ELSE NotInstalled] : ss \in SectionLists(LookupSections)}
    /\ InitProcess

Occurrences(seq, x) == Cardinality({i \in 1..Len(seq) : seq[i] = x})

\* A call of find_icon.
FindIcon(theme_name, icon, size, scale) ==
    /\ calls < MaxCalls
    /\ LET r == find_icon(theme_name, icon, size, scale)
       IN  /\ last' = [NoCall EXCEPT !.op = "find_icon", !.theme_name = theme_name,
                                     !.exc = r.exc, !.value = r.value]
           /\ parse_count' = [n \in Names |-> parse_count[n] + Occurrences(r.parsed, n)]
    /\ calls' = calls + 1
    /\ UNCHANGED <<fs, request, THEME_CACHE>>

\* A call of lookup_icon on the Theme of an installed, well-formed theme.  The
\* three functions below change no state of the process: each is applied
\* once to the inputs drawn in the initial state.
LookupIcon(theme_name, icon, size, scale) ==
    LET t == Theme_init(get_theme_directory(theme_name), 1)
    IN  /\ last.op = "none"
        /\ t.exc = ""
        /\ last' = [NoCall EXCEPT !.op = "lookup_icon", !.theme_name = theme_name,
                                  !.value = lookup_icon(icon, size, scale, t.theme)]
        /\ UNCHANGED <<fs, request, THEME_CACHE, parse_count, calls>>

\* A call of directory_matches_size on one subdirectory of a theme.
DirectoryMatchesSize(theme_name, relpath, size, scale) ==
    LET theme_directory == get_theme_directory(theme_name)
    IN  /\ last.op = "none"
        /\ theme_directory # None
        /\ relpath \in 1..Len(fs[theme_name].Sections)
        /\ LET d == ThemeSubdirectory_init(relpath, [path |-> theme_directory])
           IN  /\ d.exc = ""
               /\ last' = [NoCall EXCEPT
                             !.op = "directory_matches_size",
                             !.theme_name = theme_name, !.relpath = relpath,
                             !.matches = directory_matches_size(d.subdir, size, scale)]
        /\ UNCHANGED <<fs, request, THEME_CACHE, parse_count, calls>>

\* A call of directory_size_distance on one subdirectory of a theme.
DirectorySizeDistance(theme_name, relpath, size, scale) ==
    LET theme_directory == get_theme_directory(theme_name)
    IN  /\ last.op = "none"
        /\ theme_directory # None
        /\ relpath \in 1..Len(fs[theme_name].Sections)
        /\ LET d == ThemeSubdirectory_init(relpath, [path |-> theme_directory])
           IN  /\ d.exc = ""
               /\ last' = [NoCall EXCEPT
                             !.op = "directory_size_distance",
                             !.theme_name = theme_name, !.relpath = relpath,
                             !.distance = directory_size_distance(d.subdir, size, scale)]
        /\ UNCHANGED <<fs, request, THEME_CACHE, parse_count, calls>>

Next ==
    \E theme_name \in Names :
        FindIcon(theme_name, Icon, request.size, request.scale)

NextLookup ==
    \E theme_name \in Names :
        \/ LookupIcon(theme_name, Icon, request.size, request.scale)
        \/ \E relpath \in 1..MaxDirs :
               \/ DirectoryMatchesSize(theme_name, relpath, request.size, request.scale)
               \/ DirectorySizeDistance(theme_name, relpath, request.size, request.scale)

Spec == Init /\ [][Next]_vars

SpecLookup == InitLookup /\ [][NextLookup]_vars

----------------------------------------------------------------------------
(***************************************************************************)
(* Vocabulary of the properties, stated on the installed files and the     *)
(* request rather than on the objects the program builds.                  *)
(***************************************************************************)
Installed(n) == n \in Names /\ fs[n].is_dir

ExtensionSet == {Extensions[k] : k \in 1..Len(Extensions)}

ExtensionRank(e) == CHOOSE k \in 1..Len(Extensions) : Extensions[k] = e

\* The (subdirectory, extension) pairs of theme n whose icon file exists.
FilePairs(n) ==
    {p \in (1..Len(fs[n].Sections)) \X ExtensionSet : p[2] \in fs[n].Sections[p[1]].files}

\* p comes before q in (declaration order, then png, svg, xpm).
Before(p, q) ==
    \/ p[1] < q[1]
    \/ p[1] = q[1] /\ ExtensionRank(p[2]) < ExtensionRank(q[2])

PathOf(n, p) == [tag |-> "str", parts |-> <<n, p[1], Icon, p[2]>>]

DeclaredScale(sec) == IF sec.Scale = "" THEN 1 ELSE int(sec.Scale)

Typed(sec) == sec.Type \in {"Fixed", "Scalable"}

MatchesExactly(sec, size, scale) ==
    /\ DeclaredScale(sec) = scale
    /\ \/ sec.Type = "Fixed" /\ int(sec.Size) = size
       \/ sec.Type = "Scalable" /\ int(sec.MinSize) <= size /\ size <= int(sec.MaxSize)

Largest(S) == CHOOSE x \in S : \A y \in S : y <= x

Distance(sec, size, scale) ==
    LET dim == size * scale
        c == DeclaredScale(sec)
    IN  CASE sec.Type = "Fixed" ->
                Largest({int(sec.Size) * c - dim, dim - int(sec.Size) * c})
          [] sec.Type = "Scalable" ->
                Largest({0, int(sec.MinSize) * c - dim, dim - int(sec.MaxSize) * c})
          [] OTHER -> sys_maxsize

ExactPairs(n) ==
    {p \in FilePairs(n) : MatchesExactly(fs[n].Sections[p[1]], request.size, request.scale)}

PairDistance(n, p) == Distance(fs[n].Sections[p[1]], request.size, request.scale)

\* p is the first pair of S in order.
FirstOf(p, S) == p \in S /\ \A q \in S : q = p \/ Before(p, q)

\* p has the least distance in S and is the first of S in order to have it.
ClosestOf(n, p, S) ==
    /\ p \in S
    /\ \A q \in S : \/ PairDistance(n, p) < PairDistance(n, q)
                    \/ PairDistance(n, p) = PairDistance(n, q) /\ (q = p \/ Before(p, q))

\* The value is the full path of an existing icon file.
ValidPath(v) == \E n \in Names : Installed(n) /\ \E p \in FilePairs(n) : v = PathOf(n, p)

WellFormed(n) ==
    \A i \in 1..Len(fs[n].Sections) :
        \A v \in {fs[n].Sections[i].Size, fs[n].Sections[i].MinSize,
                  fs[n].Sections[i].MaxSize, fs[n].Sections[i].Scale} :
            v = "" \/ ~int_raises(v)

DeclaredParents(n) ==
    IF Installed(n) THEN {fs[n].Inherits[i] : i \in 1..Len(fs[n].Inherits)} ELSE {}

RECURSIVE Closure(_)
Closure(S) ==
    LET T == S \cup UNION {DeclaredParents(n) : n \in S}
    IN  IF T = S THEN S ELSE Closure(T)

\* The theme n and every theme named by the Inherits keys below it.
Tree(n) == Closure({n})

Ancestors(n) == Closure(DeclaredParents(n))

HasCycle(n) == \E m \in Tree(n) : m \in Ancestors(m)

\* Every theme of the tree of n is installed with well-formed numbers, and
\* the Inherits keys of the tree form no cycle.
Sound(n) == ~HasCycle(n) /\ \A m \in Tree(n) : Installed(m) /\ WellFormed(m)

Returned == last.op = "find_icon" /\ last.exc = ""

----------------------------------------------------------------------------
\* C1.  Inheritance fallback: when the requested theme holds no file of the
\* icon in its own subdirectories and its first declared parent holds one in
\* a subdirectory matching (size, scale) exactly, find_icon returns the
\* parent's first exact match.
InheritanceFallback ==
    last.op = "find_icon" =>
        LET a == last.theme_name
        IN  (/\ Sound(a)
             /\ FilePairs(a) = {}
             /\ Len(fs[a].Inherits) >= 1
             /\ ExactPairs(fs[a].Inherits[1]) # {})
            => /\ last.exc = ""
               /\ \E p \in ExactPairs(fs[a].Inherits[1]) :
                      /\ FirstOf(p, ExactPairs(fs[a].Inherits[1]))
                      /\ last.value = PathOf(fs[a].Inherits[1], p)

\* C2.  hicolor fallback: when no theme of the requested theme's tree holds a
\* file of the icon, find_icon returns the result of the search of hicolor's
\* tree: a path in that tree when it holds a file, absent otherwise; and when
\* the requested theme's tree holds a file, the path returned lies in it.
HicolorFallback ==
    last.op = "find_icon" =>
        LET a == last.theme_name
        IN  (Sound(a) /\ Sound("hicolor")) =>
               /\ last.exc = ""
               /\ IF \E m \in Tree(a) : FilePairs(m) # {}
                  THEN ValidPath(last.value) /\ last.value.parts[1] \in Tree(a)
                  ELSE IF \E m \in Tree("hicolor") : FilePairs(m) # {}
                  THEN ValidPath(last.value) /\ last.value.parts[1] \in Tree("hicolor")
                  ELSE last.value = None

\* C3.  Result validity: a value returned by find_icon is either absent or
\* the full path of an existing file, never an empty or partial path.
ResultValidity == Returned => (last.value = None \/ ValidPath(last.value))

\* C4.  An unresolvable theme is not fatal: when a theme name of the requested
\* tree has no directory, and the installed themes involved are well-formed
\* and acyclic, find_icon raises no error.
UnresolvableThemeNotFatal ==
    last.op = "find_icon" =>
        LET a == last.theme_name
        IN  (/\ \E m \in Tree(a) : ~Installed(m)
             /\ ~HasCycle(a)
             /\ \A m \in Tree(a) : Installed(m) => WellFormed(m)
             /\ Sound("hicolor"))
            => last.exc = ""

\* C5.  Memoization: with every theme installed, well-formed and acyclic, no
\* theme directory's index file is parsed into a Theme more than once over the
\* calls of one process.
ParsedAtMostOnce ==
    (\A n \in Names : Sound(n)) => \A n \in Names : parse_count[n] <= 1

\* C6.  Cycle termination: when the Inherits keys of the requested tree form a
\* cycle, all its themes being installed and well-formed, find_icon returns a
\* valid match or absent.
CycleTerminates ==
    last.op = "find_icon" =>
        LET a == last.theme_name
        IN  (/\ HasCycle(a)
             /\ \A m \in Tree(a) : Installed(m) /\ WellFormed(m)
             /\ Sound("hicolor"))
            => /\ last.exc = ""
               /\ (last.value = None \/ ValidPath(last.value))

\* C7.  Parse-error isolation: when a theme of the requested tree declares a
\* numeric field that is no integer, hicolor's tree being sound and apart
\* from it, find_icon still returns the result of the search of hicolor.
ParseErrorIsolated ==
    last.op = "find_icon" =>
        LET a == last.theme_name
        IN  (/\ \E m \in Tree(a) : Installed(m) /\ ~WellFormed(m)
             /\ ~HasCycle(a)
             /\ \A m \in Tree(a) : Installed(m)
             /\ Sound("hicolor")
             /\ Tree(a) \cap Tree("hicolor") = {})
            => last.exc = ""

\* C8.  Exact-match priority: when some (subdirectory, extension) pair of the
\* theme matches (size, scale) exactly and its file exists, lookup_icon
\* returns the file of the first such pair in (declaration order, then png,
\* svg, xpm); no closest-distance candidate is returned in its place.  A
\* subdirectory matches exactly when its scale is the requested one and, Fixed,
\* its size is the requested size or, Scalable, minSize <= size <= maxSize.
ExactMatchPriority ==
    /\ last.op = "directory_matches_size" =>
           last.matches = MatchesExactly(fs[last.theme_name].Sections[last.relpath],
                                         request.size, request.scale)
    /\ last.op = "lookup_icon" =>
           LET n == last.theme_name
           IN  ExactPairs(n) # {} =>
                   \E p \in ExactPairs(n) :
                       FirstOf(p, ExactPairs(n)) /\ last.value = PathOf(n, p)

ExactMatchPriorityWitness ==
    /\ last.op = "lookup_icon"
    /\ Cardinality(ExactPairs(last.theme_name)) >= 2
    /\ \E q \in FilePairs(last.theme_name) \ ExactPairs(last.theme_name) :
           /\ PairDistance(last.theme_name, q) = 0
           /\ \A p \in ExactPairs(last.theme_name) : Before(q, p)
    /\ \E p \in ExactPairs(last.theme_name) : last.value = PathOf(last.theme_name, p)

\* C9, as stated.  Closest match: when no exact match exists and at least one
\* pair has an existing file, lookup_icon returns the existing file of least
\* distance, the first in order among those of equal least distance.
ClosestMatchOfAnyFile ==
    last.op = "lookup_icon" =>
        LET n == last.theme_name
        IN  (ExactPairs(n) = {} /\ FilePairs(n) # {}) =>
                \E p \in FilePairs(n) :
                    ClosestOf(n, p, FilePairs(n)) /\ last.value = PathOf(n, p)

\* C9, amended.  Closest match: when no exact match exists and at least one
\* pair has an existing file at a distance below sys.maxsize (a file in a
\* Fixed or Scalable subdirectory), lookup_icon returns, among those pairs,
\* the existing file of least distance, the first in order among those of
\* equal least distance.
ClosestMatchOfTypedFile ==
    last.op = "lookup_icon" =>
        LET n == last.theme_name
            C == {p \in FilePairs(n) : PairDistance(n, p) < sys_maxsize}
        IN  (ExactPairs(n) = {} /\ C # {}) =>
                \E p \in C : ClosestOf(n, p, C) /\ last.value = PathOf(n, p)

\* Fixed 96 then Fixed 48 at scale 1, both holding the icon, asked for size
\* 64 at scale 1: the 48 file is returned.
ClosestMatchWitness ==
    /\ last.op = "lookup_icon"
    /\ request = [size |-> 64, scale |-> 1]
    /\ Len(fs[last.theme_name].Sections) = 2
    /\ \A i \in 1..2 : /\ fs[last.theme_name].Sections[i].Type = "Fixed"
                       /\ fs[last.theme_name].Sections[i].Scale = ""
                       /\ fs[last.theme_name].Sections[i].files # {}
    /\ fs[last.theme_name].Sections[1].Size = "96"
    /\ fs[last.theme_name].Sections[2].Size = "48"
    /\ ExactPairs(last.theme_name) = {}
    /\ last.value.parts[2] = 2

\* C10.  Distance metric: with dim = size*scale, directory_size_distance is
\* abs(size*scale - dim) for Fixed; for Scalable 0 inside
\* [minSize*scale, maxSize*scale] and the gap to the nearer bound outside; and
\* sys.maxsize for any other type; and lookup_icon returns a file of a
\* subdirectory of another type only when no Fixed or Scalable subdirectory
\* holds a file of the icon.
DistanceMetric ==
    /\ last.op = "directory_size_distance" =>
           last.distance = Distance(fs[last.theme_name].Sections[last.relpath],
                                    request.size, request.scale)
    /\ last.op = "lookup_icon" =>
           LET n == last.theme_name
           IN  (/\ Len(last.value.parts) = 4
                /\ ~Typed(fs[n].Sections[last.value.parts[2]]))
               => \A q \in FilePairs(n) : ~Typed(fs[n].Sections[q[1]])

DistanceMetricWitness ==
    /\ last.op = "directory_size_distance"
    /\ fs[last.theme_name].Sections[last.relpath].Type = "Scalable"
    /\ fs[last.theme_name].Sections[last.relpath].Scale = "2"
    /\ request.scale = 1
    /\ last.distance > 0
    /\ last.distance < sys_maxsize

====
